---- MODULE Spec2Model ----
(***************************************************************************)
(* Model of the ledger server in src/server.js: the in-memory              *)
(* SimpleDatabase (users map, transactions array), the HTTP handlers       *)
(* balance / topup / transfer / payment and the socket.io join handler     *)
(* with its rooms.                                                         *)
(*                                                                         *)
(* Every handler of server.js is synchronous JavaScript (no await, no      *)
(* callback between its first and last statement), so Node's event loop    *)
(* runs each one to completion before the next request is looked at: one   *)
(* handler is one action.  Concurrent requests are every order in which    *)
(* Next can pick the handlers.                                             *)
(*                                                                         *)
(* Identities are plain strings (no "/", which the database splits paths   *)
(* on, and none equal to a socket id, which names a room of its own); ""   *)
(* stands for a missing / empty field (falsy in JavaScript), and amount 0  *)
(* for a missing amount (falsy as well).  Amounts are JSON integers.  An   *)
(* account record keeps the fields id and balance; createdAt / lastTopup   *)
(* are written but never read by the code.  `emitted` is what the last     *)
(* step pushed over socket.io and to which sockets, `resp` the HTTP        *)
(* response of the last step.                                              *)
(***************************************************************************)
EXTENDS Integers, Sequences, FiniteSets, TLC

\* ---------------------------------------------------------------- bounds
MaxLog == 3        \* the transaction log is explored up to this length
MaxFlowLog == 5    \* ... and up to this length over FlowAmounts
MaxClock == 1      \* Date.now() takes the values 0..MaxClock
NumRand == 2       \* Math.random() gives one of NumRand id suffixes

\* ------------------------------------------------------- program constants
MinAmount == 100   \* lower limit of topup / transfer
MaxAmount == 5000  \* upper limit of topup / transfer
DefaultLimit == 20  \* length of a transaction listing when no limit is given

\* ------------------------------------------------------------ input sets
Ids == {"a", "b", "k"}
NoId == ""
UserIds == {"a", "b"}
Amounts == {-50, 0, 50, 100, 5000, 5001}
FlowAmounts == {50, 100}
Sockets == {"s1", "s2"}
PushAmount == MinAmount  \* the amount of the requests served while sockets come and go

\* ?limit=... as the characters of the query string; << >> when it is absent
LimitQueries == {<< >>, <<"0">>, <<"1">>, <<"2">>, <<"-", "1">>, <<"2", "x">>, <<"x">>}

\* request bodies: every amount for every present user, and one body per missing field
TopupRequests ==
    {[userId |-> u, amount |-> a] : u \in UserIds, a \in Amounts}
    \cup {[userId |-> NoId, amount |-> MinAmount]}
TransferRequests ==
    {[fromUserId |-> f, toUserId |-> t, amount |-> a] : f \in UserIds, t \in UserIds, a \in Amounts}
    \cup {[fromUserId |-> NoId, toUserId |-> "b", amount |-> MinAmount],
          [fromUserId |-> "a", toUserId |-> NoId, amount |-> MinAmount]}
PaymentRequests ==
    {[fromUserId |-> f, storeName |-> "shop", amount |-> a, kassaId |-> "k"] :
        f \in UserIds, a \in Amounts}
    \cup {[fromUserId |-> NoId, storeName |-> "shop", amount |-> MinAmount, kassaId |-> "k"],
          [fromUserId |-> "a", storeName |-> "", amount |-> MinAmount, kassaId |-> "k"],
          [fromUserId |-> "a", storeName |-> "shop", amount |-> MinAmount, kassaId |-> NoId]}

VARIABLES users, log, now, connected, rooms, emitted, resp

vars == <<users, log, now, connected, rooms, emitted, resp>>

\* ---------------------------------------------------------------- values
NoTx == [id |-> <<0, "", 0>>, userId |-> "", relatedUserId |-> "",
         type |-> "none", amount |-> 0, timestamp |-> 0]

NoResp == [op |-> "none", from |-> "", to |-> "", store |-> "", amount |-> 0,
           status |-> 0, error |-> "", balance |-> 0, balanceTo |-> 0,
           query |-> << >>, transactions |-> << >>]

\* ------------------------------------------------------- SimpleDatabase
\* db.get(`users/${id}`) is truthy: the account exists
HasUser(us, id) == id \in DOMAIN us

\* db.set(`users/${id}`, value)
dbSetUser(us, id, value) ==
    [k \in DOMAIN us \cup {id} |-> IF k = id THEN value ELSE us[k]]

\* mutant: the update is dropped when the node already exists
dbUpdateUserNoMerge(us, id, updates) ==
    [k \in DOMAIN us \cup {id} |-> IF k = id /\ k \notin DOMAIN us THEN updates ELSE us[k]]

\* db.update(`users/${id}`, updates): Object.assign on the (possibly new) node
dbUpdateUser(us, id, updates) ==
    [k \in DOMAIN us \cup {id} |-> IF k = id THEN updates ELSE us[k]]

\* db.transaction(path, updateFunction): get, apply, set
dbTransaction(currentValue, updateFunction(_)) == updateFunction(currentValue)

\* mutant: the new balance is not stored
dbSetBalanceLost(us, id, value) == us

\* db.set(`users/${id}/balance`, value)
dbSetBalance(us, id, value) ==
    [k \in DOMAIN us |-> IF k = id THEN [us[k] EXCEPT !.balance = value] ELSE us[k]]

\* mutant: the stored array is not read back, the log starts over
dbPushReplace(txs, tx) == << tx >>

\* db.get('transactions') || [], push, db.set('transactions', ...)
dbPush(txs, tx) == Append(txs, tx)

\* ------------------------------------------------------------- socket.io
\* mutant: a room reaches every connected socket
InRoomEveryone(id) == connected

\* mutant: a room keeps one socket only
InRoomOne(id) ==
    LET members == {s \in connected : id \in rooms[s]}
    IN IF members = {} THEN {} ELSE {CHOOSE s \in members : TRUE}

\* sockets in a room
InRoom(id) == {s \in connected : id \in rooms[s]}

BalanceUpdated(userId, balance, tx) ==
    [type |-> "balance_updated", userId |-> userId, balance |-> balance,
     amount |-> 0, tx |-> tx]

\* mutant: the confirmation is built before the transaction record exists
PaymentSuccessfulNoTx(amount, userId, tx) ==
    [type |-> "payment_successful", userId |-> userId, balance |-> 0,
     amount |-> amount, tx |-> NoTx]

PaymentSuccessful(amount, userId, tx) ==
    [type |-> "payment_successful", userId |-> userId, balance |-> 0,
     amount |-> amount, tx |-> tx]

\* one emit: the room (or "*", or the socket) addressed, the sockets it reaches, the event
Emit(room, targets, event) == [room |-> room, targets |-> targets, event |-> event]

Reply(op, from, to, amount, status, error, balance, balanceTo) ==
    [op |-> op, from |-> from, to |-> to, store |-> "", amount |-> amount,
     status |-> status, error |-> error, balance |-> balance, balanceTo |-> balanceTo,
     query |-> << >>, transactions |-> << >>]

Init ==
    /\ users = << >>
    /\ log = << >>
    /\ now = 0
    /\ connected = {}
    /\ rooms = [s \in Sockets |-> {}]
    /\ emitted = << >>
    /\ resp = NoResp

\* mutant: the account is written whether or not it exists
BalanceRecreate(userId) ==
    LET user == HasUser(users, userId)
        balance == IF user THEN users[userId].balance ELSE 0
    IN /\ users' = dbSetUser(users, userId, [id |-> userId, balance |-> 0])
       /\ emitted' = << >>
       /\ resp' = Reply("balance", userId, "", 0, 200, "", balance, 0)
       /\ UNCHANGED <<log, now, connected, rooms>>

\* GET /api/balance/:userId
Balance(userId) ==
    LET user == HasUser(users, userId)
        balance == IF user THEN users[userId].balance ELSE 0
    IN /\ users' = IF ~user THEN dbSetUser(users, userId, [id |-> userId, balance |-> 0])
                   ELSE users
       /\ emitted' = << >>
       /\ resp' = Reply("balance", userId, "", 0, 200, "", balance, 0)
       /\ UNCHANGED <<log, now, connected, rooms>>

\* `return res.status(400).json(...)`: the handler ends, nothing was written
Reject(r) ==
    /\ resp' = r
    /\ emitted' = << >>
    /\ UNCHANGED <<log, now, connected, rooms>>

\* mutant: the limits themselves are refused
TopupInvalidStrict(userId, amount) ==
    userId = NoId \/ amount = 0 \/ amount <= MinAmount \/ amount >= MaxAmount

\* topup's validation: !userId || !amount || amount < 100 || amount > 5000
TopupInvalid(userId, amount) ==
    userId = NoId \/ amount = 0 \/ amount < MinAmount \/ amount > MaxAmount

\* POST /api/topup
Topup(userId, amount, env) ==
    IF TopupInvalid(userId, amount)
    THEN /\ Reject(Reply("topup", userId, "", amount, 400, "invalid", 0, 0))
         /\ users' = users
    ELSE \E t \in env.times, r \in env.rands :
         LET currentBalance == IF HasUser(users, userId) THEN users[userId].balance ELSE 0
             newBalance == currentBalance + amount
             transaction == [id |-> <<t, "", r>>, userId |-> userId, relatedUserId |-> "",
                             type |-> "topup", amount |-> amount, timestamp |-> t]
             \* io.emit: every connected socket
             emits == << Emit("*", connected, BalanceUpdated(userId, newBalance, transaction)) >>
         IN /\ Len(log) + 1 <= env.maxLog
            /\ t >= now
            /\ now' = t
            /\ users' = dbUpdateUser(users, userId, [id |-> userId, balance |-> newBalance])
            /\ log' = dbPush(log, transaction)
            /\ emitted' = emits
            /\ resp' = Reply("topup", userId, "", amount, 200, "", newBalance, 0)
            /\ UNCHANGED <<connected, rooms>>

\* mutant: the sender is not debited
TransferUpdateCreditOnly(us, fromUserId, toUserId, amount) ==
    [us EXCEPT ![toUserId] = [@ EXCEPT !.balance = us[toUserId].balance + amount]]

\* mutant: the recipient is not credited
TransferUpdateDebitOnly(us, fromUserId, toUserId, amount) ==
    [us EXCEPT ![fromUserId] = [@ EXCEPT !.balance = us[fromUserId].balance - amount]]

\* mutant: the map written back holds the two parties only
TransferUpdateTwoOnly(us, fromUserId, toUserId, amount) ==
    [k \in {fromUserId, toUserId} |->
        IF k = fromUserId THEN [us[k] EXCEPT !.balance = @ - amount]
        ELSE [us[k] EXCEPT !.balance = @ + amount]]

\* update function of the transfer's db.transaction('users', ...)
TransferUpdate(us, fromUserId, toUserId, amount) ==
    LET debited == [us EXCEPT ![fromUserId] =
                        [@ EXCEPT !.balance = us[fromUserId].balance - amount]]
    IN [debited EXCEPT ![toUserId] =
            [@ EXCEPT !.balance = debited[toUserId].balance + amount]]

\* mutant: the range is checked before the same-account test
TransferErrorRangeFirst(us, fromUserId, toUserId, amount) ==
    IF fromUserId = NoId \/ toUserId = NoId \/ amount = 0 THEN "missing"
    ELSE IF amount < MinAmount \/ amount > MaxAmount THEN "range"
    ELSE IF fromUserId = toUserId THEN "same"
    ELSE LET fromBalance == IF HasUser(us, fromUserId) THEN us[fromUserId].balance ELSE 0
         IN IF fromBalance < amount THEN "insufficient" ELSE ""

\* mutant: a sender may not spend its whole balance
TransferErrorStrict(us, fromUserId, toUserId, amount) ==
    IF fromUserId = NoId \/ toUserId = NoId \/ amount = 0 THEN "missing"
    ELSE IF fromUserId = toUserId THEN "same"
    ELSE IF amount < MinAmount \/ amount > MaxAmount THEN "range"
    ELSE LET fromBalance == IF HasUser(us, fromUserId) THEN us[fromUserId].balance ELSE 0
         IN IF fromBalance <= amount THEN "insufficient" ELSE ""

\* the transfer's checks, in the order of the code; "" when all pass
TransferError(us, fromUserId, toUserId, amount) ==
    IF fromUserId = NoId \/ toUserId = NoId \/ amount = 0 THEN "missing"
    ELSE IF fromUserId = toUserId THEN "same"
    ELSE IF amount < MinAmount \/ amount > MaxAmount THEN "range"
    ELSE LET fromBalance == IF HasUser(us, fromUserId) THEN us[fromUserId].balance ELSE 0
         IN IF fromBalance < amount THEN "insufficient" ELSE ""

\* the recipient is created with balance 0 if it does not exist
EnsureRecipient(us, toUserId) ==
    IF ~HasUser(us, toUserId)
    THEN dbSetUser(us, toUserId, [id |-> toUserId, balance |-> 0])
    ELSE us

\* mutant: the recipient is looked up (and created) before the funds check
TransferUsersCreateFirst(us, fromUserId, toUserId, amount) ==
    LET error == TransferError(us, fromUserId, toUserId, amount)
    IN IF error = "insufficient" THEN EnsureRecipient(us, toUserId)
       ELSE IF error # "" THEN us
       ELSE TransferUpdate(EnsureRecipient(us, toUserId), fromUserId, toUserId, amount)

\* the users map the transfer handler leaves behind: untouched by a rejection
TransferUsers(us, fromUserId, toUserId, amount) ==
    IF TransferError(us, fromUserId, toUserId, amount) # "" THEN us
    ELSE dbTransaction(EnsureRecipient(us, toUserId),
                       LAMBDA cur : TransferUpdate(cur, fromUserId, toUserId, amount))

\* POST /api/transfer
Transfer(fromUserId, toUserId, amount, env) ==
    LET error == TransferError(users, fromUserId, toUserId, amount)
        newUsers == TransferUsers(users, fromUserId, toUserId, amount)
    IN IF error # ""
       THEN /\ Reject(Reply("transfer", fromUserId, toUserId, amount, 400, error, 0, 0))
            /\ users' = newUsers
       ELSE \E tOut \in env.times, tIn \in env.times, rOut \in env.rands, rIn \in env.rands :
            LET outTransaction == [id |-> <<tOut, "out", rOut>>, userId |-> fromUserId,
                                   relatedUserId |-> toUserId, type |-> "transfer_out",
                                   amount |-> -amount, timestamp |-> tOut]
                inTransaction == [id |-> <<tIn, "in", rIn>>, userId |-> toUserId,
                                  relatedUserId |-> fromUserId, type |-> "transfer_in",
                                  amount |-> amount, timestamp |-> tIn]
                updatedFromUser == newUsers[fromUserId]
                updatedToUser == newUsers[toUserId]
                emits == << Emit(fromUserId, InRoom(fromUserId),
                                 BalanceUpdated(fromUserId, updatedFromUser.balance, outTransaction)),
                            Emit(toUserId, InRoom(toUserId),
                                 BalanceUpdated(toUserId, updatedToUser.balance, inTransaction)) >>
            IN /\ Len(log) + 2 <= env.maxLog
               /\ now <= tOut /\ tOut <= tIn
               /\ now' = tIn
               /\ users' = newUsers
               /\ log' = dbPush(dbPush(log, outTransaction), inTransaction)
               /\ emitted' = emits
               /\ resp' = Reply("transfer", fromUserId, toUserId, amount, 200, "",
                                updatedFromUser.balance, updatedToUser.balance)
               /\ UNCHANGED <<connected, rooms>>

\* mutant: the amount is added
PaymentUpdateCredit(currentBalance, amount) == currentBalance + amount

\* update function of the payment's db.transaction(`users/${id}/balance`, ...)
PaymentUpdate(currentBalance, amount) == currentBalance - amount

\* mutant: the balance is not compared with the amount
PaymentErrorNoFundsCheck(us, fromUserId, storeName, amount, kassaId) ==
    IF fromUserId = NoId \/ storeName = "" \/ amount = 0 \/ kassaId = NoId THEN "missing"
    ELSE IF amount <= 0 THEN "nonpositive"
    ELSE IF ~HasUser(us, fromUserId) THEN "insufficient"
    ELSE ""

\* the payment's checks, in the order of the code; "" when all pass
PaymentError(us, fromUserId, storeName, amount, kassaId) ==
    IF fromUserId = NoId \/ storeName = "" \/ amount = 0 \/ kassaId = NoId THEN "missing"
    ELSE IF amount <= 0 THEN "nonpositive"
    ELSE IF ~HasUser(us, fromUserId) \/ us[fromUserId].balance < amount THEN "insufficient"
    ELSE ""

\* POST /api/payment
Payment(fromUserId, storeName, amount, kassaId, env) ==
    LET error == PaymentError(users, fromUserId, storeName, amount, kassaId)
    IN IF error # ""
       THEN /\ Reject([Reply("payment", fromUserId, kassaId, amount, 400, error, 0, 0)
                          EXCEPT !.store = storeName])
            /\ users' = users
       ELSE \E t \in env.times, r \in env.rands :
            LET newBalance == dbTransaction(users[fromUserId].balance,
                                  LAMBDA currentBalance : PaymentUpdate(currentBalance, amount))
                transaction == [id |-> <<t, "qr", r>>, userId |-> fromUserId,
                                relatedUserId |-> "", type |-> "qr_payment",
                                amount |-> -amount, timestamp |-> t]
                emits == << Emit(kassaId, InRoom(kassaId),
                                 PaymentSuccessful(amount, fromUserId, transaction)),
                            Emit(fromUserId, InRoom(fromUserId),
                                 BalanceUpdated(fromUserId, newBalance, transaction)) >>
            IN /\ Len(log) + 1 <= env.maxLog
               /\ t >= now
               /\ now' = t
               /\ users' = dbSetBalance(users, fromUserId, newBalance)
               /\ log' = dbPush(log, transaction)
               /\ emitted' = emits
               /\ resp' = [Reply("payment", fromUserId, kassaId, amount, 200, "", newBalance, 0)
                             EXCEPT !.store = storeName]
               /\ UNCHANGED <<connected, rooms>>

\* ------------------------------------------------- transaction listing
NaN == [nan |-> TRUE, n |-> 0]

Number(n) == [nan |-> FALSE, n |-> n]

Digits == {"0", "1", "2", "3", "4", "5", "6", "7", "8", "9"}

DigitValue(c) ==
    CASE c = "0" -> 0 [] c = "1" -> 1 [] c = "2" -> 2 [] c = "3" -> 3 [] c = "4" -> 4
      [] c = "5" -> 5 [] c = "6" -> 6 [] c = "7" -> 7 [] c = "8" -> 8 [] c = "9" -> 9

\* the value of the longest prefix of digits, read after the digits `acc` stands for
RECURSIVE DigitsPrefix(_, _)
DigitsPrefix(chars, acc) ==
    IF chars = << >> \/ chars[1] \notin Digits THEN acc
    ELSE DigitsPrefix(Tail(chars), 10 * acc + DigitValue(chars[1]))

\* parseInt: an optional sign, then digits up to the first other character; NaN
\* when there is no digit (or no parameter at all)
ParseInt(chars) ==
    LET negative == chars # << >> /\ chars[1] = "-"
        rest == IF chars # << >> /\ chars[1] \in {"-", "+"} THEN Tail(chars) ELSE chars
    IN IF rest = << >> \/ rest[1] \notin Digits THEN NaN
       ELSE Number(IF negative THEN -DigitsPrefix(rest, 0) ELSE DigitsPrefix(rest, 0))

\* parseInt(req.query.limit) || 20: NaN and 0 are falsy
LimitOf(chars) ==
    LET parsed == ParseInt(chars)
    IN IF parsed.nan \/ parsed.n = 0 THEN DefaultLimit ELSE parsed.n

\* x goes behind the records that are not older than it
RECURSIVE InsertByTimestampDesc(_, _)
InsertByTimestampDesc(sorted, x) ==
    IF sorted = << >> THEN << x >>
    ELSE IF sorted[1].timestamp >= x.timestamp
         THEN << sorted[1] >> \o InsertByTimestampDesc(Tail(sorted), x)
         ELSE << x >> \o sorted

\* .sort((a, b) => new Date(b.timestamp) - new Date(a.timestamp)): newest first,
\* records of one instant in their log order (Array.prototype.sort is stable)
RECURSIVE SortByTimestampDesc(_)
SortByTimestampDesc(txs) ==
    IF txs = << >> THEN << >>
    ELSE InsertByTimestampDesc(SortByTimestampDesc(SubSeq(txs, 1, Len(txs) - 1)),
                               txs[Len(txs)])

\* .slice(0, end): a negative end counts from the back
SliceFromStart(txs, end) ==
    LET stop == IF end < 0 THEN (IF Len(txs) + end < 0 THEN 0 ELSE Len(txs) + end)
                ELSE (IF end > Len(txs) THEN Len(txs) ELSE end)
    IN SubSeq(txs, 1, stop)

\* the listing the handler computes
UserTransactions(txs, userId, chars) ==
    SliceFromStart(
        SortByTimestampDesc(SelectSeq(txs, LAMBDA tx : tx.userId = userId)),
        LimitOf(chars))

\* GET /api/transactions/:userId
Transactions(userId, chars) ==
    /\ resp' = [Reply("transactions", userId, "", 0, 200, "", 0, 0)
                  EXCEPT !.query = chars,
                         !.transactions = UserTransactions(log, userId, chars)]
    /\ emitted' = << >>
    /\ UNCHANGED <<users, log, now, connected, rooms>>

\* io.on('connection'): a new socket, in no room
Connect(s) ==
    /\ s \notin connected
    /\ connected' = connected \cup {s}
    /\ rooms' = [rooms EXCEPT ![s] = {}]
    /\ emitted' = << >>
    /\ resp' = NoResp
    /\ UNCHANGED <<users, log, now>>

\* mutant: the balance is sent to the room instead of the joining socket
JoinToRoom(s, id) ==
    /\ s \in connected
    /\ rooms' = [rooms EXCEPT ![s] = @ \cup {id}]
    /\ LET emits == IF HasUser(users, id)
                    THEN << Emit(id, InRoom(id) \cup {s},
                                 BalanceUpdated(id, users[id].balance, NoTx)) >>
                    ELSE << >>
       IN emitted' = emits
    /\ resp' = NoResp
    /\ UNCHANGED <<users, log, now, connected>>

\* socket.on('join')
Join(s, id) ==
    /\ s \in connected
    /\ rooms' = [rooms EXCEPT ![s] = @ \cup {id}]
    /\ LET emits == IF HasUser(users, id)
                    THEN << Emit(s, {s}, BalanceUpdated(id, users[id].balance, NoTx)) >>
                    ELSE << >>
       IN /\ emitted' = emits
    /\ resp' = NoResp
    /\ UNCHANGED <<users, log, now, connected>>

\* socket.on('disconnect'): socket.io takes the socket out of its rooms
Disconnect(s) ==
    /\ s \in connected
    /\ connected' = connected \ {s}
    /\ rooms' = [rooms EXCEPT ![s] = {}]
    /\ emitted' = << >>
    /\ resp' = NoResp
    /\ UNCHANGED <<users, log, now>>

\* What a run explores of a handler's surroundings: the values Date.now() and
\* Math.random() may take and the length up to which the log is followed.
\* Here the clock stands still and the random suffix is fixed.
Still(maxLog) == [times |-> {now}, rands |-> {1}, maxLog |-> maxLog]

\* The ledger's HTTP surface with no client connected: every request body,
\* valid or not.
Next ==
    \/ \E u \in Ids : Balance(u)
    \/ \E q \in TopupRequests : Topup(q.userId, q.amount, Still(MaxLog))
    \/ \E q \in TransferRequests :
          Transfer(q.fromUserId, q.toUserId, q.amount, Still(MaxLog))
    \/ \E q \in PaymentRequests :
          Payment(q.fromUserId, q.storeName, q.amount, q.kassaId, Still(MaxLog))

Spec == Init /\ [][Next]_vars

\* Longer histories of the ledger over fewer amounts.
NextFlow ==
    \/ \E u \in UserIds : Balance(u)
    \/ \E u \in UserIds, a \in FlowAmounts : Topup(u, a, Still(MaxFlowLog))
    \/ \E f \in UserIds, t \in UserIds, a \in FlowAmounts :
          Transfer(f, t, a, Still(MaxFlowLog))
    \/ \E f \in UserIds, a \in FlowAmounts : Payment(f, "shop", a, "k", Still(MaxFlowLog))

SpecFlow == Init /\ [][NextFlow]_vars

\* Balance changes pushed to connected clients: sockets connect, join rooms and
\* disconnect while valid topups, transfers and payments are served.
NextPush ==
    \/ \E s \in Sockets : Connect(s)
    \/ \E s \in Sockets, id \in Ids : Join(s, id)
    \/ \E s \in Sockets : Disconnect(s)
    \/ \E u \in UserIds : Topup(u, PushAmount, Still(MaxLog))
    \/ \E f \in UserIds, t \in UserIds : Transfer(f, t, PushAmount, Still(MaxLog))
    \/ \E f \in UserIds : Payment(f, "shop", PushAmount, "k", Still(MaxLog))

SpecPush == Init /\ [][NextPush]_vars

\* The clock may advance between and within handlers (Date.now() never goes
\* back) and Math.random() gives any of the suffixes.
Ticking(maxLog) == [times |-> now..MaxClock, rands |-> 1..NumRand, maxLog |-> maxLog]

\* Ids and timestamps of the records: valid requests under a running clock.
NextIds ==
    \/ \E u \in UserIds : Topup(u, PushAmount, Ticking(MaxLog))
    \/ \E f \in UserIds, t \in UserIds : Transfer(f, t, PushAmount, Ticking(MaxLog))
    \/ \E f \in UserIds : Payment(f, "shop", PushAmount, "k", Ticking(MaxLog))
    \/ \E u \in UserIds, q \in LimitQueries : Transactions(u, q)

SpecIds == Init /\ [][NextIds]_vars

\* ------------------------------------------------------------ properties
BalanceOf(us, id) == IF id \in DOMAIN us THEN us[id].balance ELSE 0

RECURSIVE SumAmounts(_)
SumAmounts(txs) == IF txs = << >> THEN 0 ELSE txs[1].amount + SumAmounts(Tail(txs))

RECURSIVE SumBalances(_, _)
SumBalances(us, ids) ==
    IF ids = {} THEN 0
    ELSE LET id == CHOOSE x \in ids : TRUE
         IN us[id].balance + SumBalances(us, ids \ {id})

RecordsOf(txs, id) == SelectSeq(txs, LAMBDA tx : tx.userId = id)

RecordsOfType(txs, types) == SelectSeq(txs, LAMBDA tx : tx.type \in types)

Appended == SubSeq(log', Len(log) + 1, Len(log'))

Succeeded(r, op) == r.op = op /\ r.status = 200

\* C1: a successful transfer takes amount from the sender, adds it to the
\* recipient (from 0 if the recipient had no account), answers with the two
\* balances now stored, and appends exactly a transfer_out of -amount for the
\* sender followed by a transfer_in of +amount for the recipient.
C1_TransferEffect ==
    [][Succeeded(resp', "transfer") =>
         /\ users'[resp'.from].balance = BalanceOf(users, resp'.from) - resp'.amount
         /\ users'[resp'.to].balance = BalanceOf(users, resp'.to) + resp'.amount
         /\ resp'.balance = users'[resp'.from].balance
         /\ resp'.balanceTo = users'[resp'.to].balance
         /\ SubSeq(log', 1, Len(log)) = log
         /\ Len(Appended) = 2
         /\ Appended[1].userId = resp'.from /\ Appended[1].type = "transfer_out"
         /\ Appended[1].amount = -resp'.amount
         /\ Appended[2].userId = resp'.to /\ Appended[2].type = "transfer_in"
         /\ Appended[2].amount = resp'.amount]_vars

\* a transfer has succeeded, leaving the sender something and the recipient more
\* than the amount
C1_Witness ==
    /\ Succeeded(resp, "transfer")
    /\ Len(log) = 5
    /\ resp.balance > 0
    /\ resp.balanceTo > resp.amount

\* C2: no account ever has a negative balance.
C2_NonNegative == \A id \in DOMAIN users : users[id].balance >= 0

\* a debit has emptied an account
C2_Witness ==
    /\ resp.status = 200 /\ resp.op \in {"transfer", "payment"}
    /\ users[resp.from].balance = 0

\* C3: every account's balance is the sum of the signed amounts of the log
\* records that carry its userId.
C3_BalanceIsLogSum ==
    \A id \in DOMAIN users : users[id].balance = SumAmounts(RecordsOf(log, id))

\* an account that was topped up twice and then debited
C3_Witness ==
    \E id \in DOMAIN users :
        /\ Len(RecordsOf(log, id)) = 3
        /\ Len(RecordsOfType(RecordsOf(log, id), {"topup"})) = 2
        /\ users[id].balance > 0

\* C4: no state holds half a transfer: the balances add up to what was topped
\* up minus what was paid, and every transfer_out in the log is directly
\* followed by its transfer_in.
C4_TransferAtomic ==
    /\ SumBalances(users, DOMAIN users)
         = SumAmounts(RecordsOfType(log, {"topup", "qr_payment"}))
    /\ \A i \in 1..Len(log) :
         log[i].type = "transfer_out" =>
            /\ i < Len(log)
            /\ log[i + 1].type = "transfer_in"
            /\ log[i + 1].userId = log[i].relatedUserId
            /\ log[i + 1].amount = -log[i].amount

\* a transfer is the last thing that happened
C4_Witness ==
    /\ Succeeded(resp, "transfer")
    /\ Len(log) >= 3
    /\ log[Len(log)].type = "transfer_in"

\* C5: a rejected topup, transfer or payment leaves the accounts, the balances
\* and the log as they were and emits nothing.
C5_RejectionWritesNothing ==
    [][(resp'.status = 400 /\ resp'.op \in {"topup", "transfer", "payment"}) =>
         /\ users' = users
         /\ log' = log
         /\ emitted' = << >>]_vars

\* a transfer was rejected for insufficient funds and its recipient has no account
C5_Witness ==
    /\ resp.op = "transfer" /\ resp.status = 400 /\ resp.error = "insufficient"
    /\ resp.to \notin DOMAIN users
    /\ resp.from \in DOMAIN users

\* the identity an emit is meant for
Addressee(e) == IF e.event.type = "payment_successful" THEN resp.to ELSE e.event.userId

\* an emit caused by a balance change (join's event carries no transaction)
OfBalanceChange(e) == e.event.tx.type # "none"

\* C6, as claimed: an event of a balance change reaches only sockets that
\* joined under an identity the change affects.
C6_OnlyAffected ==
    \A i \in 1..Len(emitted) :
        OfBalanceChange(emitted[i]) =>
            \A s \in emitted[i].targets : rooms[s] \cap {resp.from, resp.to} # {}

\* C6, amended: the events of a transfer or a payment reach exactly the
\* connected sockets that joined under the identity the event is meant for;
\* the event of a topup reaches every connected socket.
C6_PushTargets ==
    \A i \in 1..Len(emitted) :
        OfBalanceChange(emitted[i]) =>
            IF resp.op = "topup"
            THEN emitted[i].targets = connected
            ELSE emitted[i].targets = {s \in connected : Addressee(emitted[i]) \in rooms[s]}

\* a transfer reached the sender's socket and passed by a connected socket
\* that joined only as the till
C6_Witness ==
    /\ Succeeded(resp, "transfer")
    /\ \E s1 \in connected, s2 \in connected :
          /\ rooms[s1] = {resp.from} /\ emitted[1].targets = {s1}
          /\ rooms[s2] = {"k"}
          /\ emitted[2].targets = {}

\* C7: a transfer whose two ids are the same present id, with a non-zero
\* amount, is answered 400 same-account and writes nothing.
C7_SameAccount ==
    [][(resp'.op = "transfer" /\ resp'.from = resp'.to /\ resp'.from # NoId
          /\ resp'.amount # 0) =>
         /\ resp'.status = 400 /\ resp'.error = "same"
         /\ users' = users /\ log' = log /\ emitted' = << >>]_vars

\* refused although the account could afford the transfer and the amount is in range
C7_Witness ==
    /\ resp.op = "transfer" /\ resp.from = resp.to /\ resp.error = "same"
    /\ resp.amount = MinAmount
    /\ BalanceOf(users, resp.from) >= resp.amount

\* C8: a topup with a userId succeeds exactly when MinAmount <= amount <=
\* MaxAmount and is answered 400 otherwise; a success adds amount to the balance
\* (from 0 for a new account) and appends one topup record of +amount.
C8_Topup ==
    [][(resp'.op = "topup" /\ resp'.from # NoId) =>
         /\ resp'.status = 200 <=> (MinAmount <= resp'.amount /\ resp'.amount <= MaxAmount)
         /\ resp'.status # 200 => (resp'.status = 400 /\ resp'.error = "invalid")
         /\ resp'.status = 200 =>
               /\ users'[resp'.from].balance = BalanceOf(users, resp'.from) + resp'.amount
               /\ resp'.balance = users'[resp'.from].balance
               /\ SubSeq(log', 1, Len(log)) = log
               /\ Len(Appended) = 1
               /\ Appended[1].userId = resp'.from /\ Appended[1].type = "topup"
               /\ Appended[1].amount = resp'.amount]_vars

\* MaxAmount was added to an account that had a balance already
C8_Witness ==
    /\ Succeeded(resp, "topup")
    /\ resp.amount = MaxAmount
    /\ resp.balance > MaxAmount

\* C9: a transfer between two different present ids with an amount in range is
\* rejected for insufficient funds exactly when the sender's balance (0 without
\* an account) is below the amount; one of the whole balance leaves 0.
C9_InsufficientFunds ==
    [][(resp'.op = "transfer" /\ resp'.from # resp'.to
          /\ resp'.from # NoId /\ resp'.to # NoId
          /\ MinAmount <= resp'.amount /\ resp'.amount <= MaxAmount) =>
         /\ (resp'.status = 400 /\ resp'.error = "insufficient")
               <=> BalanceOf(users, resp'.from) < resp'.amount
         /\ BalanceOf(users, resp'.from) >= resp'.amount => resp'.status = 200
         /\ BalanceOf(users, resp'.from) = resp'.amount =>
               users'[resp'.from].balance = 0]_vars

\* the sender gave away all it had
C9_Witness ==
    /\ Succeeded(resp, "transfer")
    /\ resp.balance = 0
    /\ users[resp.from].balance = 0

\* C10: a payment with every field present and a positive amount is rejected
\* for insufficient funds when the payer has no account or less than the
\* amount; otherwise the payer's balance drops by the amount, no other account
\* changes or appears, and one qr_payment record of -amount is appended.
C10_Payment ==
    [][(resp'.op = "payment" /\ resp'.from # NoId /\ resp'.to # NoId
          /\ resp'.store # "" /\ resp'.amount > 0) =>
         IF ~HasUser(users, resp'.from) \/ users[resp'.from].balance < resp'.amount
         THEN /\ resp'.status = 400 /\ resp'.error = "insufficient"
              /\ users' = users /\ log' = log
         ELSE /\ resp'.status = 200
              /\ users' = [users EXCEPT ![resp'.from] =
                              [@ EXCEPT !.balance = @ - resp'.amount]]
              /\ resp'.balance = users'[resp'.from].balance
              /\ SubSeq(log', 1, Len(log)) = log
              /\ Len(Appended) = 1
              /\ Appended[1].userId = resp'.from /\ Appended[1].type = "qr_payment"
              /\ Appended[1].amount = -resp'.amount]_vars

\* a payment went through while the till has an account of its own
C10_Witness ==
    /\ Succeeded(resp, "payment")
    /\ HasUser(users, resp.to)
    /\ users[resp.to].balance = 0
    /\ users[resp.from].balance > 0
\* C11: a successful payment emits exactly a payment_successful to the room of
\* kassaId (with the amount, the payer and the id of the record just appended)
\* followed by a balance_updated to the payer's room with the balance now
\* stored; a rejected payment emits nothing.
C11_PaymentEvents ==
    /\ Succeeded(resp, "payment") =>
          /\ Len(emitted) = 2
          /\ emitted[1].room = resp.to
          /\ emitted[1].event.type = "payment_successful"
          /\ emitted[1].event.amount = resp.amount
          /\ emitted[1].event.userId = resp.from
          /\ emitted[1].event.tx.id = log[Len(log)].id
          /\ log[Len(log)].type = "qr_payment"
          /\ emitted[2].room = resp.from
          /\ emitted[2].event.type = "balance_updated"
          /\ emitted[2].event.userId = resp.from
          /\ emitted[2].event.balance = users[resp.from].balance
    /\ (resp.op = "payment" /\ resp.status = 400) => emitted = << >>

\* a payment went through and both events were emitted
C11_Witness ==
    /\ Succeeded(resp, "payment")
    /\ Len(emitted) = 2
    /\ emitted[1].room = "k" /\ emitted[2].room = resp.from
    /\ users[resp.from].balance > 0
\* the transactions of the balance_updated events that reach socket s for identity id
PushedTo(emits, s, id) ==
    LET sel == SelectSeq(emits, LAMBDA e : /\ s \in e.targets
                                           /\ e.event.type = "balance_updated"
                                           /\ e.event.userId = id
                                           /\ OfBalanceChange(e))
    IN [i \in 1..Len(sel) |-> sel[i].event.tx]

\* C12: in the step in which an operation commits, every connected socket
\* joined under an identity receives for it exactly the records the step
\* appended for that identity, one balance_updated each, in log order; as the
\* handlers run one after the other, the events of an identity arrive in
\* commit order.
C12_PushOrder ==
    [][\A s \in connected' : \A id \in rooms'[s] :
          PushedTo(emitted', s, id) = RecordsOf(Appended, id)]_vars

\* two sockets joined under the same identity both got its transfer_in
C12_Witness ==
    /\ Succeeded(resp, "transfer")
    /\ \A s \in Sockets : s \in connected /\ resp.to \in rooms[s]
    /\ emitted[2].targets = Sockets
    /\ Len(RecordsOf(log, resp.to)) >= 1
\* C13: a balance_updated of a topup, transfer or payment carries the balance
\* the ledger now stores for its userId and that user's own record of the
\* operation, one of the records just appended; after a transfer the sender
\* gets its transfer_out of -amount and the recipient its transfer_in of +amount.
C13_EventCarriesBalance ==
    /\ \A i \in 1..Len(emitted) :
          (emitted[i].event.type = "balance_updated" /\ OfBalanceChange(emitted[i])) =>
             /\ HasUser(users, emitted[i].event.userId)
             /\ emitted[i].event.balance = users[emitted[i].event.userId].balance
             /\ emitted[i].event.tx.userId = emitted[i].event.userId
             /\ \E j \in 1..Len(log) : j >= Len(log) - 1 /\ log[j] = emitted[i].event.tx
    /\ Succeeded(resp, "transfer") =>
          /\ Len(emitted) = 2
          /\ emitted[1].event.userId = resp.from
          /\ emitted[1].event.tx.type = "transfer_out"
          /\ emitted[1].event.tx.amount = -resp.amount
          /\ emitted[2].event.userId = resp.to
          /\ emitted[2].event.tx.type = "transfer_in"
          /\ emitted[2].event.tx.amount = resp.amount

\* a sender holding 200 gave 100 to a recipient holding nothing: the events say 100 and 100
C13_Witness ==
    /\ Succeeded(resp, "transfer")
    /\ resp.amount = 100
    /\ Len(log) = 4
    /\ emitted[1].event.balance = 100 /\ emitted[1].event.tx.amount = -100
    /\ emitted[2].event.balance = 100 /\ emitted[2].event.tx.amount = 100
\* C14: the records of the log have pairwise distinct ids.
C14_DistinctIds ==
    \A i \in 1..Len(log) : \A j \in 1..Len(log) : i # j => log[i].id # log[j].id
\* C15: across every step the old log is a prefix of the new one; a successful
\* transfer adds exactly two records, a successful topup or payment exactly
\* one, and every other step none.
C15_AppendOnly ==
    [][/\ Len(log') >= Len(log)
       /\ SubSeq(log', 1, Len(log)) = log
       /\ Len(Appended) = IF Succeeded(resp', "transfer") THEN 2
                          ELSE IF Succeeded(resp', "topup") \/ Succeeded(resp', "payment")
                               THEN 1
                          ELSE 0]_vars

\* the log holds a topup, then the two records of a transfer
C15_Witness ==
    /\ Len(log) = 3
    /\ log[1].type = "topup"
    /\ log[2].type = "transfer_out" /\ log[3].type = "transfer_in"
\* C16: no identity has more than one joined connection, and an event
\* addressed to an identity reaches at most one connection.
C16_OneConnectionPerIdentity ==
    /\ \A id \in Ids : Cardinality({s \in connected : id \in rooms[s]}) <= 1
    /\ \A i \in 1..Len(emitted) :
          emitted[i].room \in Ids => Cardinality(emitted[i].targets) <= 1
\* C17: a balance query answers with the account's balance (0 for none),
\* leaves the account existing with that balance, touches no other account,
\* appends nothing and emits nothing; on an existing account it changes
\* nothing at all, so asking again is the same as asking once.
C17_BalanceQuery ==
    [][resp'.op = "balance" =>
         /\ resp'.status = 200
         /\ resp'.balance = BalanceOf(users, resp'.from)
         /\ DOMAIN users' = DOMAIN users \cup {resp'.from}
         /\ users'[resp'.from].balance = BalanceOf(users, resp'.from)
         /\ \A id \in DOMAIN users : users'[id] = users[id]
         /\ log' = log
         /\ emitted' = << >>]_vars

\* the balance of a funded account was asked for
C17_Witness ==
    /\ resp.op = "balance"
    /\ resp.balance > 0
    /\ users[resp.from].balance = resp.balance
    /\ Len(log) > 0
\* C18: a listing holds only records of the requested user, newest first, and
\* is the first `limit` records of them (DefaultLimit when no limit is given):
\* never more than `limit` records, whatever the limit (none for a limit
\* below 0).
C18_Listing ==
    resp.op = "transactions" =>
        LET requested == ParseInt(resp.query)
            given == IF requested.nan THEN DefaultLimit ELSE requested.n
            limit == IF given < 0 THEN 0 ELSE given
            mine == SortByTimestampDesc(RecordsOf(log, resp.from))
            listing == resp.transactions
        IN /\ Len(listing) <= limit
           /\ listing = SubSeq(mine, 1, IF limit < Len(mine) THEN limit ELSE Len(mine))
           /\ \A i \in 1..Len(listing) : listing[i].userId = resp.from
           /\ \A i \in 1..Len(listing) : \A j \in 1..Len(listing) :
                 i < j => listing[i].timestamp >= listing[j].timestamp
\* C19: a successful topup or payment leaves every account but the user's as
\* it was, a successful transfer every account but the sender's and the
\* recipient's, and none of them removes an account.
C19_Frame ==
    [][(resp'.status = 200 /\ resp'.op \in {"topup", "transfer", "payment"}) =>
         LET touched == IF resp'.op = "transfer" THEN {resp'.from, resp'.to}
                        ELSE {resp'.from}
         IN /\ DOMAIN users \subseteq DOMAIN users'
            /\ \A id \in DOMAIN users \ touched : users'[id] = users[id]]_vars

\* a transfer went through while a third account existed
C19_Witness ==
    /\ Succeeded(resp, "transfer")
    /\ Cardinality(DOMAIN users) = 3
    /\ \E id \in DOMAIN users : id \notin {resp.from, resp.to} /\ users[id].balance = 0
\* C20: a join leaves accounts, balances and log as they were; when an account
\* of the joined id exists, exactly one balance_updated with its balance and
\* no transaction goes to the joining socket alone, otherwise nothing is
\* emitted.  (A step that answers no HTTP request and leaves the set of
\* connections alone is a join.)
C20_Join ==
    [][(resp' = NoResp /\ connected' = connected) =>
         /\ users' = users
         /\ log' = log
         /\ \E s \in connected, id \in Ids :
               /\ rooms' = [rooms EXCEPT ![s] = @ \cup {id}]
               /\ IF HasUser(users, id)
                  THEN /\ Len(emitted') = 1
                       /\ emitted'[1].targets = {s}
                       /\ emitted'[1].event.type = "balance_updated"
                       /\ emitted'[1].event.userId = id
                       /\ emitted'[1].event.balance = users[id].balance
                       /\ emitted'[1].event.tx = NoTx
                  ELSE emitted' = << >>]_vars

\* a socket joined a funded identity that the other socket had joined before
C20_Witness ==
    /\ resp = NoResp
    /\ Len(emitted) = 1
    /\ emitted[1].event.tx = NoTx
    /\ emitted[1].event.balance > 0
    /\ Cardinality(emitted[1].targets) = 1
    /\ \A s \in Sockets : s \in connected /\ emitted[1].event.userId \in rooms[s]
====
